---- MODULE Spec2Model ----
(***************************************************************************)
(* Freeview-EPG, src/main.py: the module-level script that walks the       *)
(* channel registry, fetches each channel's listings from its upstream     *)
(* (Sky, BT, BBC Sounds schedule pages, Freeview), appends one programme   *)
(* record per listing item to programme_data and hands that list to        *)
(* build_xmltv.  One action per loop step of the script; an uncaught       *)
(* Python exception ends the run in pc = "crashed" (epg.xml is never       *)
(* written).                                                               *)
(***************************************************************************)
EXTENDS Integers, Sequences, FiniteSets, TLC

\* ------------------------------------------------------------------ bounds
\* Longest channel registry.
MaxChannels == 2
\* Most items one upstream response (or one schedule section) carries.
MaxItems == 2
\* Most listing items the upstreams deliver over a whole run.
MaxProgrammes == 2
\* Most listing items the upstreams deliver over a run of one BBC channel.
MaxPageItems == 6

\* --------------------------------------------------------------- constants
\* Python's None.
None == "None"

\* timedelta(days=1), timedelta(hours=1) and timedelta(minutes=1), in seconds.
SecondsPerDay == 86400
SecondsPerHour == 3600
SecondsPerMinute == 60

VARIABLES
    channels_data,  \* the registry, get_channels_data()
    channel,        \* position of the loop variable `channel` in channels_data
    pc,             \* where the script is
    window,         \* position in epoch_times / times / url_list (1..3)
    epg_data,       \* the listing of the window being transformed
    item,           \* position of the inner loop (item / x) in epg_data
    listing,        \* Freeview: position of `listing` in the item's events
    programme_data, \* the accumulated programme records
    sections,       \* BBC: the schedule segments of the page being transformed
    s_idx,          \* BBC: enumerate(sections) position, from 0
    p_idx,          \* BBC: enumerate(programme_items) position, from 0
    next_start,     \* BBC: the look-ahead time of day; <<>> while the name is unbound
    budget,         \* how many more listing items the upstreams will deliver
    requests,       \* the listing fetches issued so far: <<channel, adapter, window>>
    epg_xml         \* what was written to epg.xml (<<>> before the write)

vars == <<channels_data, channel, pc, window, epg_data, item, listing, programme_data,
          sections, s_idx, p_idx, next_start, budget, requests, epg_xml>>

bbc_vars == <<sections, s_idx, p_idx, next_start>>

\* ----------------------------------------------------------------- helpers
SeqsUpTo(S, n) == UNION {[1..k -> S] : k \in 0..n}

\* A listing in broadcast order: its items' start times strictly ascend.
Ascending(starts) == \A i \in 1..(Len(starts) - 1) : starts[i] < starts[i + 1]

\* 'k' in d, for a JSON object d
Has(d, k) == k \in d.keys

\* ------------------------------------------------------------ the registry
SourceKinds == {"sky", "bt", "bbc_radio", "freeview"}

\* One registry entry: channel[0][1] is the source, channel[2][1] the channel
\* id, channel[3][1] the upstream's service id.
Channel(kind, i) == [src |-> kind, id |-> i, sid |-> i]

\* The registries of one to MaxChannels channels whose sources are in `kinds`.
Registries(kinds) ==
    UNION {{[i \in 1..n |-> Channel(k[i], i)] : k \in [1..n -> kinds]} :
            n \in 1..MaxChannels}

\* -------------------------------------------------------------- get_days
\* get_days returns three boundaries whatever the source: [now, day_1, day_2].
NumWindows == 3

\* Midnight of the day the run starts on (2024-07-15), in seconds.
TodayMidnight == 19919 * SecondsPerDay

\* ------------------------------------------------------------------- Sky
\* A Sky listing item: the keys present, title t, start epoch s, and m[1].
\* The items start at 20:00 or 20:30 on 2024-07-15.
SkyItems ==
    {[keys |-> {"t", "d", "s", "m", "img"}, t |-> t, s |-> s, m1 |-> m1] :
        t \in {"A", "B"},
        s \in {19919 * SecondsPerDay + 20 * SecondsPerHour,
                19919 * SecondsPerDay + 20 * SecondsPerHour + 30 * SecondsPerMinute},
        m1 \in {30 * SecondsPerMinute, SecondsPerHour}}
    \cup {[keys |-> {"t", "s", "m"}, t |-> "A",
           s |-> 19919 * SecondsPerDay + 20 * SecondsPerHour, m1 |-> SecondsPerHour],
          [keys |-> {"t", "d", "s"}, t |-> "B",
           s |-> 19919 * SecondsPerDay + 20 * SecondsPerHour + 30 * SecondsPerMinute,
           m1 |-> SecondsPerHour]}

SkyStart(it) == it.s

\* result['listings'][sid]: the items of one response, in broadcast order.
SkyListings == {l \in SeqsUpTo(SkyItems, MaxItems) : Ascending([i \in DOMAIN l |-> SkyStart(l[i])])}

\* What a listing request can come back with: a status, and a body that is
\* unparseable, or JSON without the expected key, or JSON with a listing the
\* upstream still has the budget for.
Responses(Listings) ==
    {[status |-> 503, body |-> "unparseable", listing |-> <<>>],
     [status |-> 200, body |-> "unparseable", listing |-> <<>>],
     [status |-> 200, body |-> "no_key", listing |-> <<>>]}
    \cup {[status |-> 200, body |-> "json", listing |-> l] :
            l \in {q \in Listings : Len(q) <= budget}}

Programme(title, desc, start, stop, icon, ch) ==
    [title |-> title, description |-> desc, start |-> start, stop |-> stop,
     icon |-> icon, channel |-> ch]

\* SkyEnd with the field scaled from minutes to seconds.
SkyEndScaled(it) == it.s + it.m1 * 60

\* end = int(item['s']) + int(item['m'][1])
SkyEnd(it) == it.s + it.m1

SkyProgramme(it, ch) ==
    Programme(it.t,
              IF Has(it, "d") THEN "desc" ELSE None,
              it.s,
              SkyEnd(it),
              IF Has(it, "img") THEN "img" ELSE None,
              ch.id)

Crash ==
    /\ pc' = "crashed"
    /\ UNCHANGED <<channels_data, channel, window, epg_data, item,
                   programme_data, listing, bbc_vars, budget, requests, epg_xml>>

\* for epoch in epoch_times: requests.get, status check, json.loads, listings
SkyFetch ==
    /\ pc = "sky_epoch"
    /\ IF window > NumWindows
       THEN /\ pc' = "for_channel"
            /\ UNCHANGED <<channels_data, channel, window, epg_data, item,
                           programme_data, listing, bbc_vars, budget, requests, epg_xml>>
       ELSE \E r \in Responses(SkyListings) :
            /\ requests' = requests \cup {<<channel, "sky", window>>}
            /\ IF r.status # 200
               THEN /\ window' = window + 1
                    /\ UNCHANGED <<pc, epg_data, item>>
               ELSE IF r.body # "json"
               THEN /\ pc' = "crashed"
                    /\ UNCHANGED <<window, epg_data, item>>
               ELSE /\ epg_data' = r.listing
                    /\ item' = 1
                    /\ pc' = "sky_item"
                    /\ UNCHANGED window
            /\ budget' = budget - Len(r.listing)
            /\ UNCHANGED <<channels_data, channel, programme_data, listing, bbc_vars, epg_xml>>

\* for item in epg_data: one programme_data.append
SkyItem ==
    /\ pc = "sky_item"
    /\ IF item > Len(epg_data)
       THEN /\ window' = window + 1
            /\ pc' = "sky_epoch"
            /\ UNCHANGED <<channels_data, channel, epg_data, item,
                           programme_data, listing, bbc_vars, budget, requests, epg_xml>>
       ELSE LET it == epg_data[item] IN
            IF ~ ({"t", "s", "m"} \subseteq it.keys)
            THEN Crash
            ELSE /\ programme_data' =
                        Append(programme_data, SkyProgramme(it, channels_data[channel]))
                 /\ item' = item + 1
                 /\ UNCHANGED <<channels_data, channel, pc, window, epg_data,
                                listing, bbc_vars, budget, requests, epg_xml>>

\* ---------------------------------------------------- Europe/London (pytz)
\* The UTC instants of the zone's 2024 transitions: 2024-03-31T01:00:00Z and
\* 2024-10-27T01:00:00Z.
DstStart == 19813 * SecondsPerDay + SecondsPerHour
DstEnd == 20023 * SecondsPerDay + SecondsPerHour

\* The zone's offset from UTC in force at the UTC instant u.
UtcOffset(u) == IF DstStart <= u /\ u < DstEnd THEN SecondsPerHour ELSE 0

\* datetime.strptime(text, "%Y-%m-%dT%H:%M:%S.000Z"): the naive datetime the
\* digits spell, as seconds since 1970-01-01T00:00:00 on the same naive scale.
strptime(text) ==
    text.day * SecondsPerDay + text.hour * SecondsPerHour + text.minute * SecondsPerMinute

\* fromutc as tz.localize would do it: the digits kept as the wall clock.
localize(dt) ==
    [wall |-> dt,
     utcoffset |-> IF UtcOffset(dt - SecondsPerHour) = SecondsPerHour
                   THEN SecondsPerHour ELSE 0]

\* tz.fromutc(dt): dt is read as UTC; the result is the aware local datetime of
\* the same instant (wall-clock digits, and the offset they carry).
fromutc(dt) == [wall |-> dt + UtcOffset(dt), utcoffset |-> UtcOffset(dt)]

\* aware.timestamp(): the POSIX timestamp of an aware datetime.
timestamp(aware) == aware.wall - aware.utcoffset

\* int(tz.fromutc(datetime.strptime(text, ...)).timestamp())
BtInstant(text) == timestamp(fromutc(strptime(text)))

\* datetime.fromtimestamp(ts, tz): the aware local datetime of the instant ts.
fromtimestamp(ts) == [wall |-> ts + UtcOffset(ts), utcoffset |-> UtcOffset(ts)]

\* -------------------------------------------------------------------- BT
\* str.strip() on a text that may carry surrounding whitespace.
strip(text) == text.core

\* A schedule entry: the keys present in x['item'], the title, and the two
\* transmission timestamps: 20:00 to 20:30 or 20:30 to 21:00, on a winter day
\* (2024-01-15) or a summer day (2024-07-15).
BtEntry(keys, title, day, minute) ==
    [keys |-> keys, title |-> title,
     transmission_time |-> [day |-> day, hour |-> 20, minute |-> minute],
     transmission_end_time |->
        [day |-> day, hour |-> 20 + (minute + 30) \div 60, minute |-> (minute + 30) % 60]]

BtItems ==
    {BtEntry({"description", "image"}, [pad |-> TRUE, core |-> "A"], d, m) :
        d \in {19737, 19919}, m \in {0, 30}}
    \cup {BtEntry({"description"}, [pad |-> FALSE, core |-> "B"], 19919, 30),
          BtEntry({"image"}, [pad |-> FALSE, core |-> "B"], 19737, 0)}

BtStart(x) == strptime(x.transmission_time)

\* result['schedule']['entries']: the entries of one response, in broadcast order.
BtListings == {l \in SeqsUpTo(BtItems, MaxItems) : Ascending([i \in DOMAIN l |-> BtStart(l[i])])}

BtProgramme(x, ch) ==
    Programme(strip(x.title),
              "desc",
              BtInstant(x.transmission_time),
              BtInstant(x.transmission_end_time),
              IF Has(x, "image") THEN "img" ELSE None,
              ch.id)

\* for t in times: requests.get, status check, json.loads, schedule.entries
BtFetch ==
    /\ pc = "bt_t"
    /\ IF window > NumWindows
       THEN /\ pc' = "for_channel"
            /\ UNCHANGED <<channels_data, channel, window, epg_data, item,
                           programme_data, listing, bbc_vars, budget, requests, epg_xml>>
       ELSE \E r \in Responses(BtListings) :
            /\ requests' = requests \cup {<<channel, "bt", window>>}
            /\ IF r.status # 200
               THEN /\ window' = window + 1
                    /\ UNCHANGED <<pc, epg_data, item>>
               ELSE IF r.body # "json"
               THEN /\ pc' = "crashed"
                    /\ UNCHANGED <<window, epg_data, item>>
               ELSE /\ epg_data' = r.listing
                    /\ item' = 1
                    /\ pc' = "bt_x"
                    /\ UNCHANGED window
            /\ budget' = budget - Len(r.listing)
            /\ UNCHANGED <<channels_data, channel, programme_data, listing, bbc_vars, epg_xml>>

\* for x in result['schedule']['entries']: one programme_data.append;
\* x.get('item').get('description') is None without the key, and None.strip()
\* raises AttributeError
BtItem ==
    /\ pc = "bt_x"
    /\ IF item > Len(epg_data)
       THEN /\ window' = window + 1
            /\ pc' = "bt_t"
            /\ UNCHANGED <<channels_data, channel, epg_data, item,
                           programme_data, listing, bbc_vars, budget, requests, epg_xml>>
       ELSE LET x == epg_data[item] IN
            IF ~ Has(x, "description")
            THEN Crash
            ELSE /\ programme_data' =
                        Append(programme_data, BtProgramme(x, channels_data[channel]))
                 /\ item' = item + 1
                 /\ UNCHANGED <<channels_data, channel, pc, window, epg_data,
                                listing, bbc_vars, budget, requests, epg_xml>>

\* ------------------------------------------------------------- BBC radio
\* The labels of a schedule page's segments, in page order.
Labels == <<"early", "morning", "afternoon", "evening", "late">>

\* The on-air times a segment of each label may list ("%H:%M").
AirTimes(label) ==
    CASE label = "early"     -> {[hour |-> 6, minute |-> 50], [hour |-> 7, minute |-> 0],
                                 [hour |-> 7, minute |-> 30]}
      [] label = "morning"   -> {[hour |-> 8, minute |-> 0]}
      [] label = "afternoon" -> {[hour |-> 13, minute |-> 0]}
      [] label = "evening"   -> {[hour |-> 19, minute |-> 0]}
      [] label = "late"      -> {[hour |-> 0, minute |-> 10], [hour |-> 0, minute |-> 30],
                                 [hour |-> 0, minute |-> 45]}

\* datetime.strptime(text, "%H:%M").time(), as seconds into the day.
TimeOfDay(text) == text.hour * SecondsPerHour + text.minute * SecondsPerMinute

\* time(h, m, 0)
time(h, m) == h * SecondsPerHour + m * SecondsPerMinute

\* The item lists a segment may carry: in broadcast order within the segment.
SegmentItems(label) ==
    {l \in SeqsUpTo(AirTimes(label), MaxItems) :
        \A i \in 1..(Len(l) - 1) : TimeOfDay(l[i]) < TimeOfDay(l[i + 1])}

\* The pages made of segments labelled Labels[k..], any of them absent.
RECURSIVE PagesFrom(_)
PagesFrom(k) ==
    IF k > Len(Labels)
    THEN {<<>>}
    ELSE LET rest == PagesFrom(k + 1) IN
         rest \cup {<<[label |-> Labels[k], items |-> l]>> \o pg :
                        l \in SegmentItems(Labels[k]), pg \in rest}

\* What a page costs the upstream's budget: its items, an empty segment
\* counting as one.
RECURSIVE TotalItems(_)
TotalItems(pg) ==
    IF pg = <<>> THEN 0
    ELSE (IF pg[1].items = <<>> THEN 1 ELSE Len(pg[1].items)) + TotalItems(Tail(pg))

BbcPages == PagesFrom(1)

\* The pages of at most b items, for every b a run may have left.
PagesUpTo ==
    [b \in 0..(MaxProgrammes + MaxPageItems) |-> {pg \in BbcPages : TotalItems(pg) <= b}]

\* The calendar date of the page of a window, as midnight in naive seconds:
\* get_days("bbc_radio") is today, tomorrow and the day after.
current_date(w) == TodayMidnight + (w - 1) * SecondsPerDay

\* datetime.combine(date, time)
combine(date, tod) == date + tod

\* The offset from UTC of the clock of the host the script runs on: a host
\* that keeps UTC.
HostUtcOffset == 0

\* naive.timestamp(): the instant of a naive datetime, read on the host's clock.
naive_timestamp(dt) == dt - HostUtcOffset

\* The two `continue`s on the air time: the edge items of the adjacent days.
Discarded(label, air_time) ==
    \/ label = "early" /\ air_time >= time(7, 0)
    \/ label = "late" /\ air_time > time(0, 30)

\* The try/except around the look-ahead.  "raised" is the AttributeError of
\* None.find when the next segment has no item block.
LookAhead(secs, s, p, prev) ==
    LET programme_items == secs[s + 1].items IN
    IF p + 1 < Len(programme_items)
    THEN [raised |-> FALSE, next_start |-> <<TimeOfDay(programme_items[p + 2])>>]
    ELSE IF s + 1 < Len(secs)
    THEN IF secs[s + 2].items = <<>>
         THEN [raised |-> TRUE, next_start |-> prev]
         ELSE [raised |-> FALSE, next_start |-> <<TimeOfDay(secs[s + 2].items[1])>>]
    ELSE [raised |-> FALSE, next_start |-> prev]

\* The if/elif/else that bounds the item.  nxt is next_start, <<>> while the
\* name is unbound: reading it then raises NameError.  "skip" is the
\* `continue` of the last item of the fifth segment.
Bounded(date, s, p, n, air_time, nxt) ==
    LET programme_start == combine(date, air_time) IN
    IF s = 3 /\ p = n - 1
    THEN IF nxt = <<>> THEN [outcome |-> "NameError", start |-> 0, stop |-> 0]
         ELSE [outcome |-> "emit", start |-> programme_start,
               stop |-> combine(date + SecondsPerDay, nxt[1])]
    ELSE IF s = 4
    THEN IF n = 1 \/ p = n - 1
         THEN [outcome |-> "skip", start |-> 0, stop |-> 0]
         ELSE IF nxt = <<>> THEN [outcome |-> "NameError", start |-> 0, stop |-> 0]
         ELSE [outcome |-> "emit", start |-> combine(date + SecondsPerDay, air_time),
               stop |-> combine(date + SecondsPerDay, nxt[1])]
    ELSE IF nxt = <<>> THEN [outcome |-> "NameError", start |-> 0, stop |-> 0]
    ELSE [outcome |-> "emit", start |-> programme_start, stop |-> combine(date, nxt[1])]

\* programme_name: the text of the block's title element, a name of its own
\* for every block of every page (the day, the segment, the place in it).
programme_name(w, s, p) == [day |-> w, segment |-> s, position |-> p]

\* for url in url_list: requests.get, status check, BeautifulSoup, find_all
BbcFetch ==
    /\ pc = "bbc_url"
    /\ IF window > NumWindows
       THEN /\ pc' = "for_channel"
            /\ UNCHANGED <<channels_data, channel, window, epg_data, item,
                           programme_data, listing, bbc_vars, budget, requests, epg_xml>>
       ELSE \E status \in {200, 404} :
            \E pg \in PagesUpTo[budget] :
            /\ requests' = requests \cup {<<channel, "bbc_radio", window>>}
            /\ IF status # 200
               THEN /\ window' = window + 1
                    /\ UNCHANGED <<pc, sections, s_idx, p_idx, budget>>
               ELSE /\ sections' = pg
                    /\ s_idx' = 0
                    /\ p_idx' = 0
                    /\ budget' = budget - TotalItems(pg)
                    /\ pc' = "bbc_item"
                    /\ UNCHANGED window
            /\ UNCHANGED <<channels_data, channel, epg_data, item, listing,
                           programme_data, next_start, epg_xml>>

\* for s_idx, section in enumerate(sections):
\*     for p_idx, item in enumerate(programme_items): one item
BbcItem ==
    /\ pc = "bbc_item"
    /\ IF s_idx >= Len(sections)
       THEN /\ window' = window + 1
            /\ pc' = "bbc_url"
            /\ UNCHANGED <<channels_data, channel, epg_data, item, programme_data,
                           listing, bbc_vars, budget, requests, epg_xml>>
       ELSE IF p_idx >= Len(sections[s_idx + 1].items)
       THEN /\ s_idx' = s_idx + 1
            /\ p_idx' = 0
            /\ UNCHANGED <<channels_data, channel, pc, window, epg_data, item, listing,
                           programme_data, sections, next_start, budget, requests,
                           epg_xml>>
       ELSE LET section == sections[s_idx + 1]
                air_time == TimeOfDay(section.items[p_idx + 1])
                look == LookAhead(sections, s_idx, p_idx, next_start)
                b == Bounded(current_date(window), s_idx, p_idx, Len(section.items),
                             air_time, look.next_start)
            IN
            IF Discarded(section.label, air_time)
            THEN /\ p_idx' = p_idx + 1
                 /\ UNCHANGED <<channels_data, channel, pc, window, epg_data, item,
                                listing, programme_data, sections, s_idx, next_start,
                                budget, requests, epg_xml>>
            ELSE IF look.raised \/ b.outcome = "NameError"
            THEN Crash
            ELSE /\ programme_data' =
                        IF b.outcome = "skip"
                        THEN programme_data
                        ELSE Append(programme_data,
                                    Programme(programme_name(window, s_idx, p_idx), "desc",
                                              naive_timestamp(b.start),
                                              naive_timestamp(b.stop),
                                              "img", channels_data[channel].id))
                 /\ p_idx' = p_idx + 1
                 /\ next_start' = look.next_start
                 /\ UNCHANGED <<channels_data, channel, pc, window, epg_data, item,
                                listing, sections, s_idx, budget, requests, epg_xml>>

\* ----------------------------------------------------------------- Freeview
\* parse_duration: the text of an ISO 8601 duration is the components it
\* spells and whether it matches the grammar at all; years and months are
\* matched and not used.
parse_duration(iso_duration) ==
    iso_duration.days * SecondsPerDay + iso_duration.hours * SecondsPerHour
        + iso_duration.minutes * SecondsPerMinute + iso_duration.seconds

Duration(ok, y, d, h, m) ==
    [grammar |-> ok, years |-> y, months |-> 0, days |-> d, hours |-> h,
     minutes |-> m, seconds |-> 0]

\* datetime.strptime(text, "%Y-%m-%dT%H:%M:%S%z"): an aware datetime carrying
\* the offset the text spells.
strptime_z(text) ==
    [wall |-> text.day * SecondsPerDay + text.hour * SecondsPerHour
                + text.minute * SecondsPerMinute,
     utcoffset |-> text.offset]

\* aware + timedelta
plus(aware, delta) == [wall |-> aware.wall + delta, utcoffset |-> aware.utcoffset]

\* The events a tv-guide response lists for one service.
FvListings ==
    {[keys |-> {"secondary_title", "fallback_image_url"}, main_title |-> "A",
      start_time |-> [day |-> 19919, hour |-> 20, minute |-> 0, offset |-> SecondsPerHour],
      duration |-> Duration(TRUE, 0, 0, 1, 30)],
     [keys |-> {}, main_title |-> "B",
      start_time |-> [day |-> 19919, hour |-> 21, minute |-> 30, offset |-> SecondsPerHour],
      duration |-> Duration(TRUE, 1, 0, 0, 30)],
     [keys |-> {"fallback_image_url"}, main_title |-> "B",
      start_time |-> [day |-> 19919, hour |-> 21, minute |-> 30, offset |-> SecondsPerHour],
      duration |-> Duration(FALSE, 0, 0, 0, 0)]}

FvStart(l) == timestamp(strptime_z(l.start_time))

\* item['events']: the events of one service, in broadcast order.
FvEvents == {l \in SeqsUpTo(FvListings, MaxItems) : Ascending([i \in DOMAIN l |-> FvStart(l[i])])}

RECURSIVE TotalEvents(_)
TotalEvents(programs) ==
    IF programs = <<>> THEN 0 ELSE Len(programs[1].events) + TotalEvents(Tail(programs))

\* result['data']['programs']: up to two services, the channel's own (sid)
\* and another one (0).
FvPrograms(sid) ==
    SeqsUpTo({[service_id |-> i, events |-> l] : i \in {0, sid}, l \in FvEvents}, 2)

FvResponses(sid) ==
    {[status |-> 503, body |-> "unparseable", listing |-> <<>>],
     [status |-> 200, body |-> "unparseable", listing |-> <<>>],
     [status |-> 200, body |-> "no_key", listing |-> <<>>]}
    \cup {[status |-> 200, body |-> "json", listing |-> l] :
            l \in {q \in FvPrograms(sid) : TotalEvents(q) <= budget}}

\* What the per-programme detail request can come back with: a body that is
\* not JSON, JSON whose data has no 'programs', or one programme entry with
\* the keys it carries.
FvDetails ==
    {[body |-> "unparseable", keys |-> {}], [body |-> "no_programs", keys |-> {}]}
    \cup {[body |-> "json", keys |-> k] : k \in SUBSET {"synopsis", "image_url"}}

FvProgramme(listing_, info, ch) ==
    LET temp_start == strptime_z(listing_.start_time)
        duration == parse_duration(listing_.duration)
    IN Programme(listing_.main_title,
                 IF Has(info, "synopsis") THEN "medium" ELSE "",
                 timestamp(temp_start),
                 timestamp(plus(temp_start, duration)),
                 IF Has(info, "image_url") THEN "image_url?w=800"
                 ELSE IF Has(listing_, "fallback_image_url") THEN "fallback?w=800"
                 ELSE None,
                 ch.id)

\* if channel[0][1] == "freeview": after the loop, on the loop's last channel
FreeviewIf ==
    /\ pc = "freeview_if"
    /\ IF channels_data[channel].src = "freeview"
       THEN /\ pc' = "fv_epoch"
            /\ window' = 1
       ELSE /\ pc' = "build_xmltv"
            /\ UNCHANGED window
    /\ UNCHANGED <<channels_data, channel, epg_data, item, listing, programme_data,
                   bbc_vars, budget, requests, epg_xml>>

\* for epoch in epoch_times: requests.get, status check, json.loads, data.programs
FvFetch ==
    /\ pc = "fv_epoch"
    /\ IF window > NumWindows
       THEN /\ pc' = "build_xmltv"
            /\ UNCHANGED <<channels_data, channel, window, epg_data, item, listing,
                           programme_data, bbc_vars, budget, requests, epg_xml>>
       ELSE \E r \in FvResponses(channels_data[channel].sid) :
            /\ requests' = requests \cup {<<channel, "freeview", window>>}
            /\ IF r.status # 200
               THEN /\ window' = window + 1
                    /\ UNCHANGED <<pc, epg_data, item, listing>>
               ELSE IF r.body # "json"
               THEN /\ pc' = "crashed"
                    /\ UNCHANGED <<window, epg_data, item, listing>>
               ELSE /\ epg_data' = r.listing
                    /\ item' = 1
                    /\ listing' = 1
                    /\ pc' = "fv_listing"
                    /\ UNCHANGED window
            /\ budget' = budget - TotalEvents(r.listing)
            /\ UNCHANGED <<channels_data, channel, programme_data, bbc_vars, epg_xml>>

\* for item in ch_match: for listing in item.get('events'): one listing, with
\* its detail request
FvListing ==
    /\ pc = "fv_listing"
    /\ IF item > Len(epg_data)
       THEN /\ window' = window + 1
            /\ pc' = "fv_epoch"
            /\ UNCHANGED <<channels_data, channel, epg_data, item, listing,
                           programme_data, bbc_vars, budget, requests, epg_xml>>
       ELSE IF \/ epg_data[item].service_id # channels_data[channel].sid
               \/ listing > Len(epg_data[item].events)
       THEN /\ item' = item + 1
            /\ listing' = 1
            /\ UNCHANGED <<channels_data, channel, pc, window, epg_data,
                           programme_data, bbc_vars, budget, requests, epg_xml>>
       ELSE LET l == epg_data[item].events[listing] IN
            IF ~ l.duration.grammar
            THEN Crash
            ELSE \E info \in FvDetails :
                 IF info.body = "unparseable"
                 THEN /\ listing' = listing + 1
                      /\ UNCHANGED <<channels_data, channel, pc, window, epg_data, item,
                                     programme_data, bbc_vars, budget, requests, epg_xml>>
                 ELSE IF info.body = "no_programs"
                 THEN Crash
                 ELSE /\ programme_data' =
                            Append(programme_data,
                                   FvProgramme(l, info, channels_data[channel]))
                      /\ listing' = listing + 1
                      /\ UNCHANGED <<channels_data, channel, pc, window, epg_data, item,
                                     bbc_vars, budget, requests, epg_xml>>

\* --------------------------------------------------------- the channel loop
\* for channel in channels_data: the three `if channel[0][1] == ...` of the body
ForChannel ==
    /\ pc = "for_channel"
    /\ IF channel < Len(channels_data)
       THEN /\ channel' = channel + 1
            /\ window' = 1
            /\ pc' = CASE channels_data[channel + 1].src = "sky" -> "sky_epoch"
                       [] channels_data[channel + 1].src = "bt" -> "bt_t"
                       [] channels_data[channel + 1].src = "bbc_radio" -> "bbc_url"
                       [] OTHER -> "for_channel"
       ELSE /\ pc' = "freeview_if"
            /\ UNCHANGED <<channel, window>>
    /\ UNCHANGED <<channels_data, epg_data, item, programme_data, listing, bbc_vars,
                   budget, requests, epg_xml>>

\* datetime.fromtimestamp(ts, tz).strftime('%Y%m%d%H%M%S %z'): the wall-clock
\* digits and the offset they are written with.
strftime(aware) == <<aware.wall, aware.utcoffset>>

\* build_xmltv: one <channel> per registry entry, one <programme> per record,
\* in the order of the list it is given.
build_xmltv(channels, programmes) ==
    [channel |-> [i \in DOMAIN channels |-> channels[i].id],
     programme |->
        [i \in DOMAIN programmes |->
            [channel |-> programmes[i].channel,
             start |-> strftime(fromtimestamp(programmes[i].start)),
             stop |-> strftime(fromtimestamp(programmes[i].stop)),
             title |-> programmes[i].title,
             desc |-> programmes[i].description,
             icon |-> programmes[i].icon]]]

\* channel_xml = build_xmltv(channels_data, programme_data); f.write(channel_xml)
BuildXmltv ==
    /\ pc = "build_xmltv"
    /\ epg_xml' = build_xmltv(channels_data, programme_data)
    /\ pc' = "done"
    /\ UNCHANGED <<channels_data, channel, window, epg_data, item,
                   programme_data, listing, bbc_vars, budget, requests>>

\* The state the script starts in, over a registry drawn from `registries`
\* and upstreams that deliver at most `volume` items.
Start(registries, volume) ==
    /\ channels_data \in registries
    /\ channel = 0
    /\ pc = "for_channel"
    /\ window = 1
    /\ epg_data = <<>>
    /\ item = 1
    /\ listing = 1
    /\ programme_data = <<>>
    /\ sections = <<>>
    /\ s_idx = 0
    /\ p_idx = 0
    /\ next_start = <<>>
    /\ budget = volume
    /\ requests = {}
    /\ epg_xml = <<>>

Init == Start(Registries(SourceKinds), MaxProgrammes)

Next ==
    \/ ForChannel
    \/ SkyFetch
    \/ SkyItem
    \/ BtFetch
    \/ BtItem
    \/ BbcFetch
    \/ BbcItem
    \/ FreeviewIf
    \/ FvFetch
    \/ FvListing
    \/ BuildXmltv

Spec == Init /\ [][Next]_vars

\* A run over a registry of Sky channels.
InitSky == Start(Registries({"sky"}), MaxProgrammes)

NextSky ==
    \/ ForChannel
    \/ SkyFetch
    \/ SkyItem
    \/ FreeviewIf
    \/ BuildXmltv

SpecSky == InitSky /\ [][NextSky]_vars

\* A run over a registry of BT channels.
InitBt == Start(Registries({"bt"}), MaxProgrammes)

NextBt ==
    \/ ForChannel
    \/ BtFetch
    \/ BtItem
    \/ FreeviewIf
    \/ BuildXmltv

SpecBt == InitBt /\ [][NextBt]_vars

\* A run over a registry of one BBC radio channel, with room for a whole page.
InitBbc == Start({<<Channel("bbc_radio", 1)>>}, MaxPageItems)

NextBbc ==
    \/ ForChannel
    \/ BbcFetch
    \/ BbcItem
    \/ FreeviewIf
    \/ BuildXmltv

SpecBbc == InitBbc /\ [][NextBbc]_vars

\* ------------------------------------------------------------------ claims
Last(q) == q[Len(q)]

\* C1: every programme record handed to build_xmltv has start < stop.
C1_StartBeforeStop ==
    pc = "build_xmltv" =>
        \A i \in 1..Len(programme_data) :
            programme_data[i].start < programme_data[i].stop

\* C2: any two records emitted one after the other from the same BBC day page
\* of a channel are contiguous: the first one's stop is the second one's start.
C2_ContiguousCoverage ==
    \A i \in 1..(Len(programme_data) - 1) :
        (/\ programme_data[i].channel = programme_data[i + 1].channel
         /\ programme_data[i].title.day = programme_data[i + 1].title.day)
        => programme_data[i].stop = programme_data[i + 1].start

\* The step that transforms the last item of the last segment of a page, an
\* item the air-time filter keeps, once an earlier item of the run has bound
\* the look-ahead name.
LastItemOfPage ==
    /\ pc = "bbc_item"
    /\ next_start # <<>>
    /\ s_idx = Len(sections) - 1
    /\ p_idx = Len(sections[s_idx + 1].items) - 1
    /\ ~ Discarded(sections[s_idx + 1].label,
                   TimeOfDay(sections[s_idx + 1].items[p_idx + 1]))

\* C3: the last item of the last segment of a day page is emitted, and its
\* stop is a start time of the next day's page rolled forward by one day: it
\* lies on the day after the page's date, never at or before the item's own
\* start.
C3_LastItemBoundedByNextDay ==
    [][LastItemOfPage =>
        /\ Len(programme_data') = Len(programme_data) + 1
        /\ Last(programme_data').title = programme_name(window, s_idx, p_idx)
        /\ Last(programme_data').stop >=
                naive_timestamp(current_date(window) + SecondsPerDay)
        /\ Last(programme_data').stop > Last(programme_data').start]_vars

\* C4: no two records handed to build_xmltv share a (channel, start) pair.
C4_NoRepeatedStart ==
    pc = "build_xmltv" =>
        \A i, j \in 1..Len(programme_data) :
            (/\ i < j
             /\ programme_data[i].channel = programme_data[j].channel)
            => programme_data[i].start # programme_data[j].start

\* C5: the records of a channel are handed to build_xmltv in ascending order
\* of start.
C5_AscendingByStart ==
    pc = "build_xmltv" =>
        \A i, j \in 1..Len(programme_data) :
            (/\ i < j
             /\ programme_data[i].channel = programme_data[j].channel)
            => programme_data[i].start <= programme_data[j].start

\* The Sky item the last record was made from: the loop has just moved past it.
SkyItemDone == pc = "sky_item" /\ item > 1

\* C6 as stated: the record of a Sky item starts at s and lasts m[1] * 60.
C6_StopIsStartPlusMinutes ==
    SkyItemDone =>
        /\ Last(programme_data).start = epg_data[item - 1].s
        /\ Last(programme_data).stop - Last(programme_data).start
                = epg_data[item - 1].m1 * 60

\* C6, amended: the record of a Sky item starts at s and lasts m[1], the
\* field taken as it is.
C6_StopIsStartPlusField ==
    SkyItemDone =>
        /\ Last(programme_data).start = epg_data[item - 1].s
        /\ Last(programme_data).stop - Last(programme_data).start
                = epg_data[item - 1].m1

C6_Witness ==
    /\ SkyItemDone
    /\ epg_data[item - 1].m1 > 0
    /\ Last(programme_data).stop = epg_data[item - 1].s + epg_data[item - 1].m1

\* The instant at which the zone's wall clock shows the naive datetime dt.
WallClockInstant(dt) ==
    IF UtcOffset(dt - SecondsPerHour) = SecondsPerHour THEN dt - SecondsPerHour ELSE dt

\* The BT entry the last record was made from: the loop has just moved past it.
BtItemDone == pc = "bt_x" /\ item > 1

\* C7 as stated: the record of a BT entry starts and stops at the instants at
\* which the zone's wall clock shows the digits of its two timestamps.
C7_DigitsReadAsLocalTime ==
    BtItemDone =>
        /\ Last(programme_data).start
                = WallClockInstant(strptime(epg_data[item - 1].transmission_time))
        /\ Last(programme_data).stop
                = WallClockInstant(strptime(epg_data[item - 1].transmission_end_time))

\* C7, amended: the record of a BT entry starts and stops at the instants the
\* digits of its two timestamps spell when read as UTC.
C7_DigitsReadAsUtc ==
    BtItemDone =>
        /\ Last(programme_data).start = strptime(epg_data[item - 1].transmission_time)
        /\ Last(programme_data).stop = strptime(epg_data[item - 1].transmission_end_time)

\* A summer entry has been emitted: daylight saving is in force at its start,
\* so the two readings of its digits are an hour apart.
C7_Witness ==
    /\ BtItemDone
    /\ UtcOffset(strptime(epg_data[item - 1].transmission_time)) = SecondsPerHour
    /\ Last(programme_data).start
            # WallClockInstant(strptime(epg_data[item - 1].transmission_time))

\* C8: every Freeview listing event of the channel's own service whose
\* duration parses yields a programme record, whatever the detail request
\* returns, and the loop goes on to the next event.
C8_ListingKeptWithoutDetail ==
    [][(/\ pc = "fv_listing"
        /\ item <= Len(epg_data)
        /\ epg_data[item].service_id = channels_data[channel].sid
        /\ listing <= Len(epg_data[item].events)
        /\ epg_data[item].events[listing].duration.grammar)
       => (/\ pc' = "fv_listing"
           /\ Len(programme_data') = Len(programme_data) + 1)]_vars

\* C9: no failure of one item or one window aborts the run: the script never
\* ends in an uncaught exception.
C9_NeverAborts == pc # "crashed"

\* C10: by the end of the run every channel of the registry has had its
\* listing requested from its own source's adapter for each of the windows.
C10_EveryChannelEveryWindow ==
    pc = "done" =>
        \A i \in 1..Len(channels_data) : \A w \in 1..NumWindows :
            <<i, channels_data[i].src, w>> \in requests

====
